---- MODULE Spec2Model ----
(***************************************************************************)
(* Model of flume_exporter.py: the Flume API client (token handling and    *)
(* the three user-scoped calls), the device cache, the collection cycle,   *)
(* the scheduler thread and the HTTP server thread.                        *)
(*                                                                         *)
(* Time is counted in whole seconds.  Python values are modelled as        *)
(* records [t, n, s] so that None, strings and numbers can be compared.    *)
(***************************************************************************)
EXTENDS Integers, Sequences, FiniteSets, TLC

VARIABLES
    env,                 \* os.environ: the value of each variable main() reads
    upstream,            \* how the Flume API answers: per request, or one fixed way
    mainPc,              \* position of the main thread (main, FlumeExporter.__init__, start)
    exitCode,            \* value returned by main(): -1 while it has not returned
    reported,            \* the variable names main() logged as missing
    access_token,        \* FlumeAPI.access_token
    token_expires_at,    \* FlumeAPI.token_expires_at
    user_id,             \* FlumeAPI.user_id
    devices_cache,       \* FlumeExporter.devices_cache
    last_devices_update, \* FlumeExporter.last_devices_update
    device_info,         \* FlumeMetrics.device_info: label tuple -> info value
    water_flow_rate,     \* FlumeMetrics.water_flow_rate: label tuple -> gauge value
    now,                 \* the wall clock, datetime.now()
    elapses,             \* how many times the clock has been advanced
    schedPc,             \* position of the scheduler thread (run_scheduler)
    collectPc,           \* position inside collect_consumption_data
    idx,                 \* index of the device the cycle's loop is at
    next_run,            \* schedule's next_run of the registered job
    wake_at,             \* end of the scheduler's current time.sleep(60)
    call,                \* record of the last API-client call (observation)
    refresh,             \* record of the last update_devices_cache (observation)
    cycle                \* record of the current/last collection cycle (observation)

vars == <<env, upstream, mainPc, exitCode, reported, access_token, token_expires_at, user_id,
          devices_cache, last_devices_update, device_info, water_flow_rate,
          now, elapses, schedPc, collectPc, idx, next_run, wake_at,
          call, refresh, cycle>>

-----------------------------------------------------------------------------
(* Bounds of the model *)

\* how many times the clock may be advanced in one behaviour
MaxElapse == 2

(* Program constants *)

\* timedelta.seconds is the seconds component of a duration: 0 .. 86399
SecondsPerDay == 86400
\* expires_in = token_info.get('expires_in', 3600)
DefaultExpiresIn == 3600
\* self.devices_cache_ttl = 3600
devices_cache_ttl == 3600
\* schedule.every(1).minutes / time.sleep(60)
TickSeconds == 60

\* the amounts of time the environment lets pass in one step
ClockSteps == {TickSeconds, devices_cache_ttl, SecondsPerDay}

-----------------------------------------------------------------------------
(* Python values *)

PyNone == [t |-> "None", n |-> 0, s |-> ""]
PyStr(x) == [t |-> "str", n |-> 0, s |-> x]
PyInt(k) == [t |-> "int", n |-> k, s |-> ""]
\* a dict key that is not present
Missing == [t |-> "missing", n |-> 0, s |-> ""]

\* truth value of a Python object (None, '' and 0 are false)
Truthy(v) == ~(v.t = "None" \/ v.t = "missing" \/ (v.t = "str" /\ v.s = "") \/ (v.t = "int" /\ v.n = 0))

\* decimal digits of the integers that occur as claim values
IntStr(k) == CASE k = 0 -> "0" [] k = 1 -> "1" [] k = 2 -> "2" [] k = 7 -> "7" [] k = 42 -> "42" [] OTHER -> "n"

\* str(v)
Str(v) == CASE v.t = "str" -> v
            [] v.t = "int" -> PyStr(IntStr(v.n))
            [] OTHER -> PyStr("None")

\* d.get(key) / d.get(key, default) on a value read from a dict
DictGet(v, default) == IF v = Missing THEN default ELSE v

\* x or y
PyOr(x, y) == IF Truthy(x) THEN x ELSE y

\* float(v) raises for anything that is not a number
FloatRaises(v) == v.t # "int"

-----------------------------------------------------------------------------
(* Access tokens.  A token is the string the upstream issues; text is its   *)
(* identity (0 is the empty string), decodable says whether its second      *)
(* segment is base64url JSON of an object, claims holds that object's       *)
(* user_id and user entries.                                                *)

NoToken == [isNone |-> TRUE, text |-> 0, decodable |-> FALSE, user_id |-> Missing, user |-> Missing]
Token(k, dec, uid, usr) == [isNone |-> FALSE, text |-> k, decodable |-> dec, user_id |-> uid, user |-> usr]

TokA == Token(1, TRUE, PyStr("42"), Missing)
TokB == Token(2, TRUE, Missing, PyInt(7))
TokGarbage == Token(3, FALSE, Missing, Missing)

\* not self.access_token
TokenFalsy(tok) == tok.isNone \/ tok.text = 0

\* expires_in of a token response: absent, or a number of seconds
ExpMissing == [present |-> FALSE, n |-> 0]

\* responses of POST /oauth/token
\*   http "error": the request raised or raise_for_status()/json() raised
\*   envelope FALSE: no non-empty list under 'data'
AuthError == [http |-> "error", envelope |-> FALSE, tok |-> NoToken, expires_in |-> ExpMissing]
AuthBadEnvelope == [http |-> "ok", envelope |-> FALSE, tok |-> NoToken, expires_in |-> ExpMissing]
AuthGood(tok, exp) == [http |-> "ok", envelope |-> TRUE, tok |-> tok, expires_in |-> exp]

AuthResponses ==
    {AuthError, AuthBadEnvelope,
     AuthGood(TokA, ExpMissing), AuthGood(TokB, ExpMissing), AuthGood(TokGarbage, ExpMissing)}

\* which of the three shapes a token-endpoint response has
AuthKind(resp) ==
    IF resp.http = "error" THEN "error" ELSE IF ~resp.envelope THEN "bad_envelope" ELSE "token"

\* token_expires_at: None is -1
NoTime == -1

\* the client's token state
ApiState == [access_token |-> access_token, token_expires_at |-> token_expires_at, user_id |-> user_id]

-----------------------------------------------------------------------------
(* What a call puts on the wire, in order: authentication requests and     *)
(* user-scoped requests (with the subject id of the path and the bearer    *)
(* token of the Authorization header).                                     *)

AuthEvent == [e |-> "auth", kind |-> "oauth/token", uid |-> PyNone, tok |-> NoToken]
ReqEvent(kind, uid, tok) == [e |-> "req", kind |-> kind, uid |-> uid, tok |-> tok]

\* the subject id authenticate() extracts from an access token: the payload's
\* user_id, else its user, else '', as a string; None when decoding raises
decode_user_id(tok) ==
    IF tok.decodable
    THEN Str(PyOr(DictGet(tok.user_id, PyNone), DictGet(tok.user, PyStr(""))))
    ELSE PyNone

\* the token state a token response yields when all three fields are taken from it
FreshToken(resp, t) ==
    [access_token |-> resp.tok,
     token_expires_at |-> t + (IF resp.expires_in.present THEN resp.expires_in.n ELSE DefaultExpiresIn),
     user_id |-> decode_user_id(resp.tok)]

\* FlumeAPI.authenticate: the token state after the call and the value returned,
\* for the response resp of the token endpoint received at time t
authenticate_fails_on_decode(api, resp, t) ==
    IF resp.http = "error" THEN [api |-> api, ok |-> FALSE]
    ELSE IF ~resp.envelope THEN [api |-> [api EXCEPT !.user_id = PyNone], ok |-> FALSE]
    ELSE [api |-> FreshToken(resp, t), ok |-> resp.tok.decodable]

authenticate(api, resp, t) ==
    IF resp.http = "error"
    THEN \* the request, raise_for_status() or json() raised: nothing was assigned
         [api |-> api, ok |-> FALSE]
    ELSE IF ~resp.envelope
    THEN \* else-branch: the subject id is cleared, the token fields stay
         [api |-> [api EXCEPT !.user_id = PyNone], ok |-> FALSE]
    ELSE \* access_token, token_expires_at and user_id are assigned; a decoding
         \* failure is caught inside and leaves user_id None
         [api |-> FreshToken(resp, t), ok |-> TRUE]

\* the condition of FlumeAPI._get_headers under which it authenticates
NeedsAuth_ignores_expiry_time(api, t) ==
    TokenFalsy(api.access_token) \/ api.token_expires_at # NoTime

NeedsAuth(api, t) ==
    TokenFalsy(api.access_token) \/ (api.token_expires_at # NoTime /\ t >= api.token_expires_at)

\* no authentication was part of a call
NoAuth == [kind |-> "none", ok |-> FALSE]

\* FlumeAPI._get_headers: raised when authentication failed, else the bearer token
get_headers(api, aresp, t) ==
    IF NeedsAuth(api, t)
    THEN LET a == authenticate(api, aresp, t)
         IN [api |-> a.api, raised |-> ~a.ok, events |-> <<AuthEvent>>,
             bearer |-> a.api.access_token, auth |-> [kind |-> AuthKind(aresp), ok |-> a.ok]]
    ELSE [api |-> api, raised |-> FALSE, events |-> <<>>, bearer |-> api.access_token,
          auth |-> NoAuth]

-----------------------------------------------------------------------------
(* Devices and the upstream's answers to the user-scoped requests *)

Device(id, product) ==
    [isDict |-> TRUE, id |-> id, product |-> product, location_id |-> PyInt(7),
     type |-> PyInt(2), connected |-> TRUE]
\* a list element that is not a JSON object
BadDevice ==
    [isDict |-> FALSE, id |-> Missing, product |-> Missing, location_id |-> Missing,
     type |-> Missing, connected |-> FALSE]

Dev1 == Device(PyStr("d1"), PyStr("Bridge"))
Dev2 == Device(PyStr("d2"), PyStr("Sensor"))

DeviceLists == {<<>>, <<Dev1>>, <<Dev1, Dev2>>, <<BadDevice, Dev2>>}

\* GET /users/{id}/devices: an error, or a JSON object with the list under 'data'
DevicesError == [http |-> "error", devices |-> <<>>]
DevicesResponses == {DevicesError} \cup {[http |-> "ok", devices |-> l] : l \in DeviceLists}

\* POST .../query: an error, or the usage points
ConsumptionResponses == {[http |-> "error", points |-> 0], [http |-> "ok", points |-> 2]}

\* GET .../query/active: an error, a body without a usable 'data' list, or data[0]['gpm']
FlowError == [http |-> "error", shape |-> FALSE, gpm |-> PyNone]
FlowBadShape == [http |-> "ok", shape |-> FALSE, gpm |-> PyNone]
FlowGpm(v) == [http |-> "ok", shape |-> TRUE, gpm |-> v]
FlowResponses == {FlowError, FlowBadShape, FlowGpm(PyNone), FlowGpm(PyInt(1)), FlowGpm(PyInt(2)),
                  FlowGpm(PyStr("n/a"))}

\* FlumeAPI.get_devices
get_devices(api, aresp, dresp, t) ==
    IF ~Truthy(api.user_id)
    THEN \* "user_id not set after authentication": returns before _get_headers()
         [api |-> api, ret |-> <<>>, events |-> <<>>, failed |-> TRUE, auth |-> NoAuth]
    ELSE LET h == get_headers(api, aresp, t)
         IN IF h.raised
            THEN [api |-> h.api, ret |-> <<>>, events |-> h.events, failed |-> TRUE, auth |-> h.auth]
            ELSE [api |-> h.api, auth |-> h.auth,
                  ret |-> IF dresp.http = "ok" THEN dresp.devices ELSE <<>>,
                  \* the path is formatted before _get_headers() runs
                  events |-> h.events \o <<ReqEvent("devices", Str(api.user_id), h.bearer)>>,
                  failed |-> dresp.http # "ok"]

\* FlumeAPI.get_consumption_data
get_consumption_data(api, aresp, cresp, t) ==
    LET h == get_headers(api, aresp, t)
    IN IF h.raised
       THEN [api |-> h.api, ret |-> 0, events |-> h.events, failed |-> TRUE, auth |-> h.auth]
       ELSE [api |-> h.api, auth |-> h.auth,
             ret |-> IF cresp.http = "ok" THEN cresp.points ELSE 0,
             events |-> h.events \o <<ReqEvent("query", Str(api.user_id), h.bearer)>>,
             failed |-> cresp.http # "ok"]

\* FlumeAPI.get_current_flow_rate
get_current_flow_rate(api, aresp, fresp, t) ==
    LET h == get_headers(api, aresp, t)
    IN IF h.raised
       THEN [api |-> h.api, ret |-> PyNone, events |-> h.events, failed |-> TRUE, auth |-> h.auth]
       ELSE [api |-> h.api, auth |-> h.auth,
             ret |-> IF fresp.http = "ok" /\ fresp.shape THEN fresp.gpm ELSE PyNone,
             events |-> h.events \o <<ReqEvent("query/active", Str(api.user_id), h.bearer)>>,
             failed |-> fresp.http # "ok" \/ ~fresp.shape]

\* how _get_headers would find the stored token at time t
TokenStatus(api, t) ==
    IF TokenFalsy(api.access_token) THEN "absent"
    ELSE IF api.token_expires_at = NoTime THEN "no_expiry"
    ELSE IF t >= api.token_expires_at THEN "expired"
    ELSE "valid"

\* the upstream answers only the requests that are made: when the token needs no
\* renewal the token endpoint is not asked
AuthChoices(api, t, responses) ==
    IF NeedsAuth(api, t) THEN responses ELSE {AuthError}

\* the observation of one API-client call: the operation, how it found the token,
\* what it put on the wire, whether it failed and what it returned
NoCall == [op |-> "none", tokenWas |-> "absent", events |-> <<>>, failed |-> FALSE, ret |-> PyNone,
           auth |-> NoAuth]
Observed(op, pre, t, r, retv) ==
    [op |-> op, tokenWas |-> TokenStatus(pre, t), events |-> r.events, failed |-> r.failed,
     ret |-> retv, auth |-> r.auth]

-----------------------------------------------------------------------------
(* The metric registry and the device cache *)

\* device_name = f"Flume {device.get('product', 'Unknown')}"
device_name(device) == "Flume " \o Str(DictGet(device.product, PyStr("Unknown"))).s

\* the label tuple of a device's flume_device series (labels are stringified)
InfoLabels(device) ==
    [device_id |-> Str(DictGet(device.id, PyNone)).s,
     device_name |-> device_name(device),
     location |-> "Location " \o Str(DictGet(device.location_id, PyStr("Unknown"))).s]

\* the value update_devices_cache stores under that label tuple
InfoValue(device) ==
    [product |-> Str(DictGet(device.product, PyStr("Unknown"))).s,
     type |-> Str(DictGet(device.type, PyStr("Unknown"))).s,
     connected |-> IF device.connected THEN "True" ELSE "False"]

\* the label tuple of a device's flume_water_flow_rate series
FlowLabels_by_name_only(device) ==
    [device_id |-> "", device_name |-> device_name(device)]

FlowLabels(device) ==
    [device_id |-> Str(device.id).s, device_name |-> device_name(device)]

\* the loop of update_devices_cache over devices[i..]: it stops at the first element
\* that is not a dict (device.get raises), keeping what was written before it
RECURSIVE write_device_info(_, _, _)
write_device_info(info, devices, i) ==
    IF i > Len(devices) THEN [info |-> info, raised |-> FALSE]
    ELSE IF ~devices[i].isDict THEN [info |-> info, raised |-> TRUE]
    ELSE write_device_info((InfoLabels(devices[i]) :> InfoValue(devices[i])) @@ info, devices, i + 1)

\* timedelta.seconds of a duration of d seconds
Seconds(d) == d % SecondsPerDay

\* the condition under which update_devices_cache fetches the device list
cache_is_stale(last, t) ==
    last = NoTime \/ Seconds(t - last) > devices_cache_ttl

\* FlumeExporter.update_devices_cache at time t, with the upstream's answers
update_devices_cache(api, cache, last, info, aresp, dresp, t) ==
    IF cache_is_stale(last, t)
    THEN LET r == get_devices(api, aresp, dresp, t)
             w == write_device_info(info, r.ret, 1)
         IN [api |-> r.api, devices_cache |-> r.ret, last_devices_update |-> t,
             device_info |-> w.info, fetched |-> TRUE, r |-> r]
    ELSE [api |-> api, devices_cache |-> cache, last_devices_update |-> last,
          device_info |-> info, fetched |-> FALSE,
          r |-> [api |-> api, ret |-> <<>>, events |-> <<>>, failed |-> FALSE, auth |-> NoAuth]]

\* Gauge.set(value): the series takes the value, whatever it held
gauge_inc(held, value) == held + value

gauge_set(held, value) == value

\* the value a label tuple of the gauge holds (a new child starts at 0)
gauge_value(gauge, labels) == IF labels \in DOMAIN gauge THEN gauge[labels] ELSE 0

\* whether an exception raised in the body of collect_consumption_data leaves it
\* (the body is wrapped in try / except Exception, which logs and returns)
collect_propagates_uncaught(raised) == raised

collect_propagates(raised) == FALSE

-----------------------------------------------------------------------------
(* Observations *)

NoRefresh == [op |-> "none", fetched |-> FALSE, failed |-> FALSE, before |-> <<>>,
              age |-> 0, never |-> FALSE]
NoCycle == [started |-> FALSE, flowFetched |-> {}, flowFailed |-> {},
            written |-> {}, failed |-> FALSE, raised |-> FALSE, done |-> FALSE,
            afterFailure |-> FALSE, afterRaise |-> FALSE]
\* the record of a cycle that starts now; afterFailure: the cycle before it had a failure
NewCycle == [NoCycle EXCEPT !.started = TRUE, !.afterFailure = cycle.done /\ cycle.failed,
                           !.afterRaise = cycle.done /\ cycle.raised]
\* what is kept of a finished cycle's record once the scheduler moves on
Summary(c) == [NoCycle EXCEPT !.done = c.done, !.failed = c.failed, !.raised = c.raised]

\* the upstream of a run in which every request may be answered differently
AnyUpstream == [fixed |-> FALSE]

RequiredVars == {"FLUME_CLIENT_ID", "FLUME_CLIENT_SECRET", "FLUME_USERNAME", "FLUME_PASSWORD"}

\* os.getenv of a required variable: unset, set to the empty string, or set
CredentialValues == {PyNone, PyStr(""), PyStr("x")}
\* os.getenv('EXPORTER_PORT'): unset (the default '8001' is used) or not a number
PortValues == {PyNone, PyStr("n/a")}
EnvChoices ==
    {c @@ ("EXPORTER_PORT" :> p) : c \in [RequiredVars -> CredentialValues], p \in PortValues}

\* missing_vars = [var for var in required_env_vars if not os.getenv(var)]
missing_vars_unset_only(e) == {var \in RequiredVars : e[var] = PyNone}

missing_vars(e) == {var \in RequiredVars : ~Truthy(e[var])}

\* int(os.getenv('EXPORTER_PORT', '8001')) raises ValueError
port_raises(e) == e["EXPORTER_PORT"] # PyNone /\ e["EXPORTER_PORT"].s \notin {"8001"}

-----------------------------------------------------------------------------
\* the state of the process when main() is entered
ProcessStart ==
    /\ mainPc = "main"
    /\ exitCode = -1
    /\ reported = {}
    /\ access_token = NoToken
    /\ token_expires_at = NoTime
    /\ user_id = PyNone
    /\ devices_cache = <<>>
    /\ last_devices_update = NoTime
    /\ device_info = <<>>
    /\ water_flow_rate = <<>>
    /\ now = 0
    /\ elapses = 0
    /\ schedPc = "none"
    /\ collectPc = "idle"
    /\ idx = 0
    /\ next_run = NoTime
    /\ wake_at = NoTime
    /\ call = NoCall
    /\ refresh = NoRefresh
    /\ cycle = NoCycle

Init ==
    /\ env \in EnvChoices
    /\ upstream = AnyUpstream
    /\ ProcessStart

apiVars == <<access_token, token_expires_at, user_id>>
cacheVars == <<devices_cache, last_devices_update, device_info>>
mainVars == <<env, upstream, mainPc, exitCode, reported>>
schedVars == <<schedPc, collectPc, idx, next_run, wake_at>>
clockVars == <<now, elapses>>
obsVars == <<call, refresh, cycle>>

SetApi(api) ==
    /\ access_token' = api.access_token
    /\ token_expires_at' = api.token_expires_at
    /\ user_id' = api.user_id

\* main(): the check of the required environment variables
Main_Validate ==
    /\ mainPc = "main"
    /\ IF missing_vars(env) # {}
       THEN /\ reported' = missing_vars(env)
            /\ exitCode' = 1
            /\ mainPc' = "returned"
       ELSE IF port_raises(env)
       THEN \* outside the try block: main() is left by the exception, it returns nothing
            /\ mainPc' = "raised"
            /\ UNCHANGED <<reported, exitCode>>
       ELSE \* FlumeExporter() -> FlumeAPI.__init__ -> authenticate(): request sent
            /\ mainPc' = "init_auth"
            /\ UNCHANGED <<reported, exitCode>>
    /\ UNCHANGED <<env, upstream, apiVars, cacheVars, water_flow_rate, clockVars, schedVars, obsVars>>

\* FlumeAPI.__init__: the token endpoint answers the constructor's authenticate()
Init_Authenticate(aresp) ==
    /\ mainPc = "init_auth"
    /\ LET a == authenticate(ApiState, aresp, now)
       IN /\ SetApi(a.api)
          /\ call' = [op |-> "authenticate", tokenWas |-> TokenStatus(ApiState, now),
                      events |-> <<AuthEvent>>, failed |-> ~a.ok, ret |-> PyNone,
                      auth |-> [kind |-> AuthKind(aresp), ok |-> a.ok]]
    /\ mainPc' = "constructed"
    /\ UNCHANGED <<env, upstream, exitCode, reported, cacheVars, water_flow_rate, clockVars,
                   schedVars, refresh, cycle>>

\* FlumeExporter.start: the scheduler thread is started and the Flask app listens
Main_Start ==
    /\ mainPc = "constructed"
    /\ mainPc' = "serving"
    /\ schedPc' = "start"
    /\ call' = NoCall
    /\ UNCHANGED <<env, upstream, exitCode, reported, apiVars, cacheVars, water_flow_rate, clockVars,
                   collectPc, idx, next_run, wake_at, refresh, cycle>>

\* app.run raises (the port cannot be bound): main's except clause logs, main returns 0
Main_ServeFails ==
    /\ mainPc = "constructed"
    /\ mainPc' = "returned"
    /\ exitCode' = 0
    /\ call' = NoCall
    /\ UNCHANGED <<env, upstream, reported, apiVars, cacheVars, water_flow_rate, clockVars, schedVars,
                   refresh, cycle>>

\* the end of collect_consumption_data, normally or through its except clause, and
\* the scheduler's next position: the while loop after the initial collection, or
\* schedule's bookkeeping (next_run) and time.sleep(60) after a scheduled job
EndCycle(raised) ==
    /\ collectPc' = "idle"
    /\ idx' = 0
    /\ IF collect_propagates(raised)
       THEN /\ schedPc' = "dead"
            /\ UNCHANGED <<next_run, wake_at>>
       ELSE IF schedPc = "initial"
       THEN /\ schedPc' = "run_pending"
            /\ UNCHANGED <<next_run, wake_at>>
       ELSE /\ schedPc' = "sleeping"
            /\ next_run' = now + TickSeconds
            /\ wake_at' = now + TickSeconds

\* run_scheduler: the job is registered and the initial collection begins
Sched_Start ==
    /\ schedPc = "start"
    /\ next_run' = now + TickSeconds
    /\ schedPc' = "initial"
    /\ collectPc' = "update"
    /\ cycle' = NewCycle
    /\ UNCHANGED <<mainVars, apiVars, cacheVars, water_flow_rate, clockVars, idx, wake_at,
                   call, refresh>>

\* schedule's Job.should_run at time t, as run_pending() asks it
job_is_due_always(next, t) == TRUE

job_is_due(next, t) == t >= next

\* schedule.run_pending(): the job runs when it is due, else the loop sleeps
Sched_RunPending ==
    /\ schedPc = "run_pending"
    /\ IF job_is_due(next_run, now)
       THEN /\ schedPc' = "job"
            /\ collectPc' = "update"
            /\ cycle' = NewCycle
            /\ UNCHANGED wake_at
       ELSE /\ schedPc' = "sleeping"
            /\ wake_at' = now + TickSeconds
            /\ cycle' = Summary(cycle)
            /\ UNCHANGED collectPc
    /\ call' = NoCall
    /\ refresh' = NoRefresh
    /\ UNCHANGED <<mainVars, apiVars, cacheVars, water_flow_rate, clockVars, idx, next_run>>

\* time.sleep(60) returns
Sched_Wake ==
    /\ schedPc = "sleeping"
    /\ now >= wake_at
    /\ schedPc' = "run_pending"
    /\ call' = NoCall
    /\ refresh' = NoRefresh
    /\ cycle' = Summary(cycle)
    /\ UNCHANGED <<mainVars, apiVars, cacheVars, water_flow_rate, clockVars, collectPc, idx,
                   next_run, wake_at>>

\* collect_consumption_data: self.update_devices_cache()
Collect_Update(aresp, dresp) ==
    /\ collectPc = "update"
    /\ LET u == update_devices_cache(ApiState, devices_cache, last_devices_update,
                                     device_info, aresp, dresp, now)
       IN /\ SetApi(u.api)
          /\ devices_cache' = u.devices_cache
          /\ last_devices_update' = u.last_devices_update
          /\ device_info' = u.device_info
          /\ call' = IF u.fetched THEN Observed("get_devices", ApiState, now, u.r, PyNone) ELSE NoCall
          /\ refresh' = [op |-> "update",
                         fetched |-> u.fetched,
                         failed |-> u.fetched /\ u.r.failed,
                         before |-> devices_cache,
                         age |-> IF last_devices_update = NoTime THEN 0 ELSE now - last_devices_update,
                         never |-> last_devices_update = NoTime]
          /\ cycle' = [cycle EXCEPT !.failed = u.fetched /\ u.r.failed]
    /\ collectPc' = "loop"
    /\ idx' = 1
    /\ UNCHANGED <<mainVars, water_flow_rate, clockVars, schedPc, next_run, wake_at>>

\* the loop body up to get_consumption_data, for the device at idx
Collect_Consumption(aresp, cresp) ==
    /\ collectPc = "loop"
    /\ idx <= Len(devices_cache)
    /\ LET device == devices_cache[idx]
       IN IF ~device.isDict
          THEN \* device.get raises AttributeError
               /\ EndCycle(TRUE)
               /\ cycle' = [cycle EXCEPT !.raised = TRUE, !.failed = TRUE, !.done = TRUE]
               /\ call' = NoCall
               /\ UNCHANGED apiVars
          ELSE IF ~Truthy(DictGet(device.id, PyNone))
          THEN \* continue
               /\ idx' = idx + 1
               /\ call' = NoCall
               /\ UNCHANGED <<apiVars, cycle, schedPc, collectPc, next_run, wake_at>>
          ELSE LET r == get_consumption_data(ApiState, aresp, cresp, now)
               IN /\ SetApi(r.api)
                  /\ call' = Observed("get_consumption_data", ApiState, now, r, PyNone)
                  /\ cycle' = [cycle EXCEPT !.failed = @ \/ r.failed]
                  /\ collectPc' = "flow"
                  /\ UNCHANGED <<idx, schedPc, next_run, wake_at>>
    /\ refresh' = NoRefresh
    /\ UNCHANGED <<mainVars, cacheVars, water_flow_rate, clockVars>>

\* the loop body from get_current_flow_rate on, for the device at idx
Collect_FlowRate(aresp, fresp) ==
    /\ collectPc = "flow"
    /\ LET device == devices_cache[idx]
           r == get_current_flow_rate(ApiState, aresp, fresp, now)
           set_raises == r.ret # PyNone /\ FloatRaises(r.ret)
       IN /\ SetApi(r.api)
          /\ call' = Observed("get_current_flow_rate", ApiState, now, r, r.ret)
          /\ water_flow_rate' =
                IF r.ret # PyNone /\ ~set_raises
                THEN (FlowLabels(device)
                         :> gauge_set(gauge_value(water_flow_rate, FlowLabels(device)), r.ret.n))
                     @@ water_flow_rate
                ELSE water_flow_rate
          /\ cycle' = [cycle EXCEPT
                         !.flowFetched = @ \cup {idx},
                         !.flowFailed = IF r.failed \/ set_raises THEN @ \cup {idx} ELSE @,
                         !.written = IF r.ret # PyNone /\ ~set_raises THEN @ \cup {idx} ELSE @,
                         !.failed = @ \/ r.failed \/ set_raises,
                         !.raised = set_raises,
                         !.done = set_raises]
          /\ IF set_raises
             THEN \* Gauge.set(float(value)) raises: the except clause ends the cycle
                  EndCycle(TRUE)
             ELSE /\ idx' = idx + 1
                  /\ collectPc' = "loop"
                  /\ UNCHANGED <<schedPc, next_run, wake_at>>
    /\ UNCHANGED <<mainVars, cacheVars, clockVars, refresh>>

\* the loop is over: collect_consumption_data returns
Collect_Finish ==
    /\ collectPc = "loop"
    /\ idx > Len(devices_cache)
    /\ EndCycle(FALSE)
    /\ cycle' = [cycle EXCEPT !.done = TRUE]
    /\ call' = NoCall
    /\ refresh' = NoRefresh
    /\ UNCHANGED <<mainVars, apiVars, cacheVars, water_flow_rate, clockVars>>

\* GET /metrics is answered with the serialisation of the registry (it reads only)
Serve_Metrics ==
    /\ mainPc = "serving"
    /\ UNCHANGED vars

\* GET /health is answered
Serve_Health ==
    /\ mainPc = "serving"
    /\ UNCHANGED vars

\* time passes: the clock advances by d while the scheduler thread is in
\* time.sleep(60) (an oversleep stands for a suspended process or a hung request);
\* the calls of one cycle read the same clock value
Elapse(d) ==
    /\ schedPc = "sleeping"
    /\ elapses < MaxElapse
    /\ now' = now + d
    /\ elapses' = elapses + 1
    /\ call' = NoCall
    /\ refresh' = NoRefresh
    /\ cycle' = Summary(cycle)
    /\ UNCHANGED <<mainVars, apiVars, cacheVars, water_flow_rate, schedVars>>

Next ==
    \/ Main_Validate
    \/ \E aresp \in AuthResponses : Init_Authenticate(aresp)
    \/ Main_Start
    \/ Main_ServeFails
    \/ Sched_Start
    \/ Sched_RunPending
    \/ Sched_Wake
    \/ \E aresp \in AuthChoices(ApiState, now, AuthResponses), dresp \in DevicesResponses :
          Collect_Update(aresp, dresp)
    \/ \E aresp \in AuthChoices(ApiState, now, AuthResponses), cresp \in ConsumptionResponses :
          Collect_Consumption(aresp, cresp)
    \/ \E aresp \in AuthChoices(ApiState, now, AuthResponses), fresp \in FlowResponses :
          Collect_FlowRate(aresp, fresp)
    \/ Collect_Finish
    \/ Serve_Metrics
    \/ Serve_Health
    \/ \E d \in ClockSteps : Elapse(d)

Spec == Init /\ [][Next]_vars

-----------------------------------------------------------------------------
(* The exporter against an upstream that, once the API client is constructed,  *)
(* answers every request of a kind the same way.  The program reads the clock *)
(* only to compare it with stored times, so the stored times are kept         *)
(* relative to the clock, which stays at 0: the runs are then unbounded in    *)
(* time over finitely many states.                                            *)

SteadyAuth == {AuthError, AuthGood(TokA, ExpMissing), AuthGood(TokGarbage, ExpMissing)}
SteadyFlow == {FlowError, FlowGpm(PyNone), FlowGpm(PyInt(1)), FlowGpm(PyStr("n/a"))}
SteadyUpstreams ==
    {[fixed |-> TRUE, auth |-> a, devices |-> d, consumption |-> c, flow |-> f] :
        a \in SteadyAuth, d \in DevicesResponses, c \in {[http |-> "ok", points |-> 2]},
        f \in SteadyFlow}

InitSteady ==
    /\ env \in {e \in EnvChoices : missing_vars(e) = {} /\ ~port_raises(e)}
    /\ upstream \in SteadyUpstreams
    /\ ProcessStart

\* a stored time d seconds later, relative to the clock
Later(stored, d) == IF stored = NoTime THEN NoTime ELSE stored - d
\* an expiry time d seconds later: one that has passed stays passed
ExpiryLater(stored, d) ==
    IF stored = NoTime THEN NoTime ELSE IF stored - d < now THEN now ELSE stored - d

\* time.sleep(60) runs its course
Sleep_Elapses ==
    /\ schedPc = "sleeping"
    /\ now < wake_at
    /\ LET d == wake_at - now
       IN /\ token_expires_at' = ExpiryLater(token_expires_at, d)
          /\ last_devices_update' = Later(last_devices_update, d)
          /\ next_run' = Later(next_run, d)
          /\ wake_at' = Later(wake_at, d)
    /\ call' = NoCall
    /\ refresh' = NoRefresh
    /\ cycle' = Summary(cycle)
    /\ UNCHANGED <<mainVars, access_token, user_id, devices_cache, device_info, water_flow_rate,
                   clockVars, schedPc, collectPc, idx>>

NextSteady ==
    \/ Main_Validate
    \/ \E aresp \in AuthResponses : Init_Authenticate(aresp)
    \/ Main_Start
    \/ Sched_Start
    \/ Sched_RunPending
    \/ Sched_Wake
    \/ Collect_Update(upstream.auth, upstream.devices)
    \/ Collect_Consumption(upstream.auth, upstream.consumption)
    \/ Collect_FlowRate(upstream.auth, upstream.flow)
    \/ Collect_Finish
    \/ Serve_Metrics
    \/ Serve_Health
    \/ Sleep_Elapses

\* the process keeps running and its sleeps end
SpecSteady == InitSteady /\ [][NextSteady]_vars /\ WF_vars(NextSteady)

-----------------------------------------------------------------------------
(* Properties *)

ApiOps == {"get_devices", "get_consumption_data", "get_current_flow_rate"}
HasAuth(events) == \E i \in DOMAIN events : events[i].e = "auth"
HasRequest(events) == \E i \in DOMAIN events : events[i].e = "req"
AuthCount(events) == Cardinality({i \in DOMAIN events : events[i].e = "auth"})
\* the devices of the cache the cycle's loop does not skip
Collectable(j) == devices_cache[j].isDict /\ Truthy(DictGet(devices_cache[j].id, PyNone))

\* C1: when the device-list fetch of a cache refresh fails, the cache holds after the
\* refresh what it held before it.
C1_FailedRefreshKeepsCache ==
    (refresh.op = "update" /\ refresh.fetched /\ refresh.failed) => devices_cache = refresh.before

\* C2: every API-client call made while the token is absent or expired attempts an
\* authentication before it returns.
C2_CallChecksToken ==
    (call.op \in ApiOps /\ call.tokenWas \in {"absent", "expired"}) => HasAuth(call.events)

\* C3: an API-client call made while the stored token is expired issues exactly one
\* authentication request, and issues it before the user-scoped request.
C3_ExpiredTokenOneAuth ==
    (call.op \in ApiOps /\ call.tokenWas = "expired")
        => (AuthCount(call.events) = 1 /\ call.events[1].e = "auth")

\* C4: an API-client call made while the stored token is valid (non-empty, and the
\* clock before its expiry) issues no authentication request, leaves the stored
\* token as it is and sends it with the request.
C4_ValidTokenNoAuth ==
    [][(call'.op \in ApiOps /\ TokenStatus(ApiState, now) = "valid")
          => /\ ~HasAuth(call'.events)
             /\ ApiState' = ApiState
             /\ \A i \in DOMAIN call'.events : call'.events[i].tok = access_token]_vars

C4_Witness ==
    call.op \in ApiOps /\ call.tokenWas = "valid" /\ HasRequest(call.events)

\* C5: every step leaves the stored token fields (access_token, token_expires_at,
\* user_id) all unchanged or takes all three from one token response.
C5_TokenReplacedWholesale ==
    [][\/ ApiState' = ApiState
       \/ \E r \in AuthResponses : r.envelope /\ ApiState' = FreshToken(r, now)]_vars

\* C6 as stated: authenticate() reports failure when the HTTP call errors, when the
\* response has no token envelope, and when decoding the subject claim fails (the
\* subject id being None then).
C6_AuthFailsInThreeCases ==
    /\ call.auth.kind \in {"error", "bad_envelope"} => ~call.auth.ok
    /\ (call.auth.kind = "token" /\ ~access_token.decodable) => (user_id = PyNone /\ ~call.auth.ok)

\* C6 as amended: authenticate() reports failure when the HTTP call errors and when
\* the response has no token envelope, and the call that asked for it fails without
\* a user-scoped request; when decoding the subject claim fails the subject id is
\* None and authenticate() reports success.
C6_AuthFailsInTwoCases ==
    /\ call.auth.kind \in {"error", "bad_envelope"}
          => (~call.auth.ok /\ call.failed /\ ~HasRequest(call.events))
    /\ (call.auth.kind = "token" /\ ~access_token.decodable) => (user_id = PyNone /\ call.auth.ok)

C6_Witness ==
    call.auth.kind = "token" /\ ~access_token.decodable /\ user_id = PyNone /\ call.auth.ok

\* C7: a cache refresh calls for the device list exactly when the cache was never
\* populated or its age exceeds the ttl, whatever the age, and then stamps the cache
\* with the current time.
C7_RefreshIffStale ==
    refresh.op = "update"
        => /\ refresh.fetched <=> (refresh.never \/ refresh.age > devices_cache_ttl)
           /\ refresh.fetched => last_devices_update = now

\* C8: a cycle in which the flow-rate fetch of some device failed has, when it ends,
\* fetched the flow rate of every other device of the cache.
C8_FailureIsolated ==
    (cycle.done /\ cycle.started /\ cycle.flowFailed # {})
        => \A j \in 1..Len(devices_cache) : Collectable(j) => j \in cycle.flowFetched

\* C9: no failure inside a cycle leaves collect_consumption_data: the scheduler
\* thread never dies, and a cycle that failed ends with the scheduler back in its
\* loop, from where the next due tick starts a cycle.
C9_NoPropagation ==
    /\ schedPc # "dead"
    /\ (cycle.done /\ cycle.failed) => (collectPc = "idle" /\ schedPc \in {"run_pending", "sleeping"})
    /\ (schedPc = "run_pending" /\ now >= next_run) => ENABLED Sched_RunPending

C9_Witness ==
    cycle.started /\ cycle.afterRaise /\ schedPc = "job" /\ collectPc = "update"

\* C10: while an upstream call is outstanding (the constructor's authentication, or
\* a collection cycle in progress), a metrics request and a health request can be
\* answered.
C10_ServerAlwaysResponsive ==
    (mainPc = "init_auth" \/ collectPc # "idle") => (ENABLED Serve_Metrics /\ ENABLED Serve_Health)

MissingOrEmpty == {v \in RequiredVars : env[v] = PyNone \/ env[v] = PyStr("")}

\* C12: when a required credential variable is unset or empty, main() reports
\* exactly the missing names and returns 1, the API client is never constructed and
\* nothing is sent upstream; when none is missing main() never returns 1.
C12_MissingCredentialsExit1 ==
    /\ MissingOrEmpty # {}
          => /\ mainPc \in {"main", "returned"}
             /\ mainPc = "returned" => (exitCode = 1 /\ reported = MissingOrEmpty)
             /\ ApiState = [access_token |-> NoToken, token_expires_at |-> NoTime, user_id |-> PyNone]
             /\ call = NoCall /\ schedPc = "none"
    /\ MissingOrEmpty = {} => (exitCode # 1 /\ reported = {})

C12_Witness ==
    /\ mainPc = "returned" /\ exitCode = 1
    /\ \E v, w \in reported : env[v] = PyNone /\ env[w] = PyStr("")

\* main() returned without the exit status of a missing credential
C12_WitnessOtherwise ==
    mainPc = "returned" /\ exitCode = 0 /\ MissingOrEmpty = {}

\* C13: against an upstream that answers every request of a kind the same way, no
\* step of a cycle after the first changes the metric registry, whether or not the
\* cycle refreshes the device cache: the registry after it is the registry after
\* the cycle before it.
C13_CycleIdempotent ==
    [][schedPc = "job" => (device_info' = device_info /\ water_flow_rate' = water_flow_rate)]_vars

C13_Witness ==
    /\ upstream.fixed /\ schedPc = "job" /\ cycle.written # {}
    /\ last_devices_update = now /\ Len(devices_cache) = 2

\* the (device_id, device_name) pair of the j-th device of the cache
LabelTuple(j) ==
    [device_id |-> devices_cache[j].id.s, device_name |-> "Flume " \o devices_cache[j].product.s]

\* C15: a step of a cycle changes the flow-rate gauge only when the flow-rate
\* fetch of the device at hand returned a value, and then only at that device's
\* (device_id, device_name) label tuple; when the fetch returned None the gauge
\* is left as it was, at that label tuple and at every other.
C15_GaugeWrittenOnlyOnValue ==
    [][/\ water_flow_rate' # water_flow_rate
             => /\ collectPc = "flow" /\ call'.op = "get_current_flow_rate"
                /\ call'.ret # PyNone
                /\ DOMAIN water_flow_rate' = DOMAIN water_flow_rate \cup {LabelTuple(idx)}
                /\ \A l \in DOMAIN water_flow_rate :
                      l # LabelTuple(idx) => water_flow_rate'[l] = water_flow_rate[l]
       /\ (collectPc = "flow" /\ call'.op = "get_current_flow_rate" /\ call'.ret = PyNone)
             => water_flow_rate' = water_flow_rate]_vars

\* a fetch returned None for a device whose gauge held a value, with the other
\* device's gauge set as well
C15_Witness ==
    /\ call.op = "get_current_flow_rate" /\ call.ret = PyNone /\ collectPc = "loop" /\ idx >= 2
    /\ LabelTuple(idx - 1) \in DOMAIN water_flow_rate
    /\ Cardinality(DOMAIN water_flow_rate) = 2

\* the value of the subject claim of a decoded token payload: user_id, else user
ClaimValue(tok) == IF tok.user_id # Missing THEN tok.user_id ELSE tok.user

\* C14: after a successful authentication whose token payload decodes to a user_id
\* (else user) claim with value v, the stored subject id is str(v), and the
\* device-list request that follows it has /users/v/devices as its path.
C14_SubjectIdFromClaim ==
    /\ (call.auth.kind = "token" /\ call.auth.ok /\ access_token.decodable)
          => user_id = Str(ClaimValue(access_token))
    /\ (call.op = "get_devices" /\ ~TokenFalsy(access_token) /\ access_token.decodable)
          => \A i \in DOMAIN call.events :
                call.events[i].e = "req" => call.events[i].uid = Str(ClaimValue(access_token))

\* the subject id a bearer token belongs to, as authenticate() would store it
SubjectOf(tok) == IF tok.decodable THEN Str(ClaimValue(tok)) ELSE PyNone

\* C17: every user-scoped request is sent with a subject id in its path (never
\* while the subject id is absent), and that subject id is the one of the token
\* sent with the request, also when the call reauthenticated first and when the
\* decoding of the new token's claims failed.
C17_RequestPathMatchesToken ==
    \A i \in DOMAIN call.events :
        call.events[i].e = "req"
            => /\ call.events[i].uid # Str(PyNone)
               /\ user_id # PyNone
               /\ call.events[i].uid = SubjectOf(call.events[i].tok)

\* the constructor's authentication failed and nothing has succeeded since, while
\* the upstream now accepts the credentials and has a device to list
FailedStart ==
    /\ mainPc = "serving" /\ TokenFalsy(access_token) /\ user_id = PyNone
    /\ upstream.auth = AuthGood(TokA, ExpMissing)
    /\ upstream.devices.http = "ok" /\ upstream.devices.devices # <<>>

\* C16: when authentication failed at process start and the upstream accepts the
\* credentials from then on, a later polling cycle issues an authentication
\* request and the device cache becomes populated.
C16_FailedStartRecovers ==
    /\ FailedStart ~> (call.op \in ApiOps /\ HasAuth(call.events))
    /\ FailedStart ~> (devices_cache # <<>>)

\* the devices of the cache that are JSON objects
CachedDevices == {devices_cache[j] : j \in {k \in DOMAIN devices_cache : devices_cache[k].isDict}}

\* C18: every label tuple exported in the flume_device and flume_water_flow_rate
\* series is that of a device in the device cache: a device a refresh dropped from
\* the list has no exported series.
C18_SeriesFollowCache ==
    /\ DOMAIN device_info \subseteq {InfoLabels(d) : d \in CachedDevices}
    /\ DOMAIN water_flow_rate \subseteq {FlowLabels(d) : d \in CachedDevices}

====
